---------------------------- MODULE Spec2Model ----------------------------
(***************************************************************************)
(* Model of the two control loops of the smart toy store front end:        *)
(*   - AppProvider (src/lib/providers/app_provider.dart): the client-side  *)
(*     order store, its stream listener and its session operations;        *)
(*   - the RFID scan loop (src/arduino/smart_toy_rfid.ino).                *)
(* The two halves share no state.  SpecApp runs the provider with the      *)
(* device frozen, SpecDev runs the device with the provider frozen.        *)
(***************************************************************************)
EXTENDS Integers, Sequences, FiniteSets, TLC

VARIABLES
    \* ---- AppProvider fields (app_provider.dart:14-23)
    currentUser,        \* _currentUser
    orders,             \* _orders
    isLoggedIn,         \* _isLoggedIn
    onNotification,     \* TRUE when the general callback is registered
    onOrderDelivered,   \* TRUE when the delivered callback is registered
    \* ---- positions of the asynchronous methods of AppProvider
    pcAuth,             \* init / login
    pcLoad,             \* loadOrders
    loadReply,          \* the fetch reply loadOrders is resumed with
    pcCreate,           \* createOrder
    createReply,        \* the order (or null) createOrder is resumed with
    notifier,           \* what notifyListeners() does: "ok" (it returns),
                        \* or "throws" once dispose() has run in a build
                        \* with asserts on
    \* ---- collaborators of AppProvider
    wsConnected,        \* WebSocketService.isConnected
    listeners,          \* subscriptions made on WebSocketService.orderStream
    stream,             \* inbound order events not yet delivered
    srv,                \* backend: order id -> status ("none" when not created)
    \* ---- what the last step did, in order: the operation that ran with the
    \* index it found or its result, the callbacks fired, the messages sent
    effects,
    \* ---- device (smart_toy_rfid.ino)
    devPc,              \* where the sketch is: off, idle (top of loop), ...
    wifi,               \* WiFi.status() == WL_CONNECTED
    card,               \* uid bytes of the card in the reader's field, << >> none
    physicalUid,        \* loop's local physicalUid
    personName,         \* loop's local personName
    httpCode,           \* handleScan's local httpCode (0: no request made)
    httpBody,           \* the response payload
    tickLog,            \* hardware and network calls made since the loop was
                        \* last at its top, in order (the reads of
                        \* WiFi.status() at lines 83 and 114 are the guards
                        \* of the steps and are not entered)
    idleTicks           \* passes of loop() since the reader was last
                        \* initialized or a card was last read (counted up to
                        \* IdleWindow + 1)

appVars == <<currentUser, orders, isLoggedIn, onNotification,
             onOrderDelivered, pcAuth, pcLoad, loadReply, pcCreate,
             createReply, notifier, wsConnected, listeners, stream, srv,
             effects>>

devVars == <<devPc, wifi, card, physicalUid, personName, httpCode, httpBody,
            tickLog, idleTicks>>

vars == <<appVars, devVars>>

---------------------------------------------------------------------------
(* Bounds of the model *)

MaxOrders == 2      \* order ids the backend can hand out
MaxStream == 1      \* undelivered stream events
MaxListeners == 2   \* calls of _connectWebSocket
MaxStore == 3       \* records of a store the listener is applied to (SpecListener)
MaxUidLen == 4      \* bytes of a card uid (SpecUid)
IdleWindow == 2     \* passes of loop() without a read that make an idle window
MaxEdits == 1       \* profile fields edited between a login and the next
MaxLateReplies == 1 \* logins / signups answered with a user after dispose()

---------------------------------------------------------------------------
(* Values *)

OrderIds == 1..MaxOrders

Statuses == {"PENDING", "PROCESSING", "DELIVERED"}

\* the statuses the backend of SpecApp moves an order between
BackendStatuses == {"PENDING", "DELIVERED"}

Order(i, s) == [id |-> i, status |-> s]

NoOrder == [id |-> 0, status |-> "null"]

NoUser == [name |-> "null", token |-> "null", email |-> "null",
           address |-> "null"]

\* the user the backend knows
BackendUser == [name |-> "user", token |-> "tok", email |-> "e0",
                address |-> "a0"]

\* What AuthService.login / signup / getCurrentUser can answer: null, or a
\* user carrying a session token.
AuthReplies == {NoUser, BackendUser}

\* what the profile screen can hand to updateUserEmail / updateUserAddress
NewEmails == {"e1"}
NewAddresses == {"a1"}

\* User.copyWith(email: e), User.copyWith(address: a): the same user with
\* that one field replaced
CopyWithEmail(u, e) == [u EXCEPT !.email = e]
CopyWithAddress(u, a) == [u EXCEPT !.address = a]

\* the fields of user u edited since AuthService answered with it
Edits(u) ==
    IF u = NoUser THEN 0
    ELSE (IF u.email = BackendUser.email THEN 0 ELSE 1)
         + (IF u.address = BackendUser.address THEN 0 ELSE 1)

HasToken(u) == u # NoUser /\ u.token # "null"

\* one entry of effects; index is the 0-based index a listener found (-1:
\* none), 1 / 0 for a returned true / false, -1 where neither applies
Eff(name, ix) == [e |-> name, index |-> ix]

\* the step ended with notifyListeners() throwing at the given line
Threw(line) == Eff("threw", line)

---------------------------------------------------------------------------
(* The stream listener, app_provider.dart:52-75 *)

\* List.indexWhere((o) => o.id == id): 0-based index of the first match, -1 if none
RECURSIVE IndexFrom(_, _, _)
IndexFrom(os, id, k) ==
    IF k > Len(os) THEN -1
    ELSE IF os[k].id = id THEN k - 1
    ELSE IndexFrom(os, id, k + 1)

IndexWhere(os, id) == IndexFrom(os, id, 1)

\* _orders.insert(0, order)
InsertFirst(os, order) == <<order>> \o os

\* _orders[index] = order
ReplaceAt(os, index, order) == [os EXCEPT ![index + 1] = order]

\* a listener that moves the record it updates to the front
OnOrderStoreMoveToFront(os, order) ==
    InsertFirst(SelectSeq(os, LAMBDA o : o.id # order.id), order)

\* the store after the listener ran on one event
OnOrderStore(os, order) ==
    LET index == IndexWhere(os, order.id) IN
    IF index >= 0 THEN ReplaceAt(os, index, order)
    ELSE InsertFirst(os, order)

\* a listener that omits the test of the old status at line 67
OnOrderFiredNoOldStatus(os, order, onN, onD) ==
    LET index == IndexWhere(os, order.id) IN
    IF index >= 0
    THEN LET oldStatus == os[index + 1].status IN
         (IF onN /\ oldStatus # order.status
          THEN <<Eff("general", index)>> ELSE << >>)
         \o (IF onD /\ order.status = "DELIVERED"
             THEN <<Eff("delivered", index)>> ELSE << >>)
    ELSE << >>

\* the callbacks the listener invokes on one event, in order
OnOrderFired(os, order, onN, onD) ==
    LET index == IndexWhere(os, order.id) IN
    IF index >= 0
    THEN LET oldStatus == os[index + 1].status IN
         (IF onN /\ oldStatus # order.status
          THEN <<Eff("general", index)>> ELSE << >>)
         \o (IF onD /\ order.status = "DELIVERED" /\ oldStatus # "DELIVERED"
             THEN <<Eff("delivered", index)>> ELSE << >>)
    ELSE << >>

\* one event handed to every subscription made by _connectWebSocket
RECURSIVE ListenersStore(_, _, _)
ListenersStore(n, os, order) ==
    IF n = 0 THEN os
    ELSE ListenersStore(n - 1, OnOrderStore(os, order), order)

\* thrown: notifyListeners() at line 74 throws, which ends that listener's
\* run and leaves the other subscriptions to theirs
RECURSIVE ListenersFired(_, _, _, _, _, _)
ListenersFired(n, os, order, onN, onD, thrown) ==
    IF n = 0 THEN << >>
    ELSE <<Eff("onOrder", IndexWhere(os, order.id))>>
         \o OnOrderFired(os, order, onN, onD)
         \o (IF thrown THEN <<Threw(74)>> ELSE << >>)
         \o ListenersFired(n - 1, OnOrderStore(os, order), order, onN, onD,
                           thrown)

---------------------------------------------------------------------------
(* Backend and services *)

\* OrderService.fetchOrders: the backend's orders, newest id first
RECURSIVE FetchFrom(_, _)
FetchFrom(s, k) ==
    IF k = 0 THEN << >>
    ELSE (IF s[k] # "none" THEN <<Order(k, s[k])>> ELSE << >>)
         \o FetchFrom(s, k - 1)

FetchOrders(s) == FetchFrom(s, MaxOrders)

FreeIds == {i \in OrderIds : srv[i] = "none"}

NextId == CHOOSE i \in FreeIds : \A j \in FreeIds : i <= j

---------------------------------------------------------------------------
(* Initial state of the provider: app_provider.dart:10-23 *)

InitApp ==
    /\ currentUser = NoUser
    /\ orders = << >>
    /\ isLoggedIn = FALSE
    /\ onNotification = FALSE
    /\ onOrderDelivered = FALSE
    /\ pcAuth = "boot"
    /\ pcLoad = "idle"
    /\ loadReply = << >>
    /\ pcCreate = "idle"
    /\ createReply = NoOrder
    /\ notifier = "ok"
    /\ wsConnected = FALSE
    /\ listeners = 0
    /\ stream = << >>
    /\ srv = [i \in OrderIds |-> "none"]
    /\ effects = << >>

---------------------------------------------------------------------------
(* notifyListeners() on a disposed ChangeNotifier: with asserts on it      *)
(* throws, which ends the function that called it (lines 47, 74, 121, 188) *)

Throws == notifier = "throws"

---------------------------------------------------------------------------
(* Callback registration: app_provider.dart:21-23, 32-34 *)

SetNotificationCallback ==
    /\ onNotification' = TRUE
    /\ effects' = << >>
    /\ UNCHANGED <<currentUser, orders, isLoggedIn, onOrderDelivered, pcAuth,
                   pcLoad, loadReply, pcCreate, createReply, wsConnected,
                   listeners, stream, srv>>
    /\ UNCHANGED notifier
    /\ UNCHANGED devVars

SetOnOrderDelivered ==
    /\ onOrderDelivered' = TRUE
    /\ effects' = << >>
    /\ UNCHANGED <<currentUser, orders, isLoggedIn, onNotification, pcAuth,
                   pcLoad, loadReply, pcCreate, createReply, wsConnected,
                   listeners, stream, srv>>
    /\ UNCHANGED notifier
    /\ UNCHANGED devVars

---------------------------------------------------------------------------
(* init / login / signup: app_provider.dart:36-48, 78-113.                 *)
(* The part of login, signup and logout before their first await changes   *)
(* none of the fields modelled here, so each of them is one step taken     *)
(* when the AuthService call has answered.                                 *)

\* _connectWebSocket, lines 50-52: connect, then one more subscription on
\* orderStream; the subscription object is discarded.
ConnectWebSocket ==
    /\ wsConnected' = TRUE
    /\ listeners' = listeners + 1

\* loadOrders as called by init or login with user u, up to its await
\* (lines 125-128): with a token the caller waits for it, without one the
\* call returns at once and the caller runs to its end; when line 127
\* throws, no fetch is made and the caller ends with it.
NestedLoadOrders(u) ==
    IF HasToken(u) /\ ~Throws
    THEN /\ pcLoad' = "sent"
         /\ pcAuth' = "loading"
    ELSE /\ pcLoad' = pcLoad
         /\ pcAuth' = "idle"

\* init, lines 37-40 and 47: token is what prefs.getString('token') found;
\* runs up to the await of getCurrentUser
InitCall(token) ==
    /\ pcAuth = "boot"
    /\ IF token
       THEN /\ isLoggedIn' = TRUE
            /\ pcAuth' = "init_user"
       ELSE /\ isLoggedIn' = isLoggedIn
            /\ pcAuth' = "idle"
    /\ effects' = (IF Throws /\ ~token THEN <<Threw(47)>>
                   ELSE <<Eff("init", -1)>>)
    /\ UNCHANGED <<currentUser, orders, onNotification, onOrderDelivered,
                   pcLoad, loadReply, pcCreate, createReply, wsConnected,
                   listeners, stream, srv>>
    /\ UNCHANGED notifier
    /\ UNCHANGED devVars

\* init, lines 41-47: resumed with the user getCurrentUser found
InitUserReply(u) ==
    /\ pcAuth = "init_user"
    /\ currentUser' = u
    /\ IF u # NoUser
       THEN /\ ConnectWebSocket
            /\ NestedLoadOrders(u)
       ELSE /\ UNCHANGED <<wsConnected, listeners, pcLoad>>
            /\ pcAuth' = "idle"
    /\ effects' = (IF Throws
                   THEN <<Threw(IF HasToken(u) THEN 127 ELSE 47)>>
                   ELSE <<Eff("init", IF u # NoUser THEN 1 ELSE 0)>>)
    /\ UNCHANGED <<orders, isLoggedIn, onNotification, onOrderDelivered,
                   loadReply, pcCreate, createReply, stream, srv>>
    /\ UNCHANGED notifier
    /\ UNCHANGED devVars

\* login, lines 79-94, with the user AuthService.login answered.  early:
\* the call was made before dispose() ran, so that line 79 did not throw.
Login(u, early) ==
    /\ pcAuth = "idle"
    /\ pcLoad = "idle"
    /\ listeners < MaxListeners
    /\ IF Throws /\ ~early
       THEN /\ effects' = <<Threw(79)>>
            /\ UNCHANGED <<currentUser, isLoggedIn, wsConnected, listeners,
                           pcLoad, pcAuth>>
       ELSE /\ IF u # NoUser
               THEN /\ currentUser' = u
                    /\ isLoggedIn' = TRUE
                    /\ ConnectWebSocket
                    /\ NestedLoadOrders(u)
               ELSE UNCHANGED <<currentUser, isLoggedIn, wsConnected,
                                listeners, pcLoad, pcAuth>>
            /\ effects' = (IF Throws
                           THEN <<Threw(IF u = NoUser THEN 93
                                        ELSE IF HasToken(u) THEN 127
                                        ELSE 88)>>
                           ELSE <<Eff("login", IF u # NoUser THEN 1 ELSE 0)>>)
    /\ UNCHANGED <<orders, onNotification, onOrderDelivered, loadReply,
                   pcCreate, createReply, stream, srv>>
    /\ UNCHANGED notifier
    /\ UNCHANGED devVars

\* signup, lines 98-112, with the user AuthService.signup answered.  early:
\* the call was made before dispose() ran, so that line 98 did not throw.
Signup(u, early) ==
    /\ pcAuth = "idle"
    /\ listeners < MaxListeners
    /\ IF Throws /\ ~early
       THEN /\ effects' = <<Threw(98)>>
            /\ UNCHANGED <<currentUser, isLoggedIn, wsConnected, listeners>>
       ELSE /\ IF u # NoUser
               THEN /\ currentUser' = u
                    /\ isLoggedIn' = TRUE
                    /\ ConnectWebSocket
               ELSE UNCHANGED <<currentUser, isLoggedIn, wsConnected,
                                listeners>>
            /\ effects' = (IF Throws
                           THEN <<Threw(IF u # NoUser THEN 106 ELSE 111)>>
                           ELSE <<Eff("signup", IF u # NoUser THEN 1 ELSE 0)>>)
    /\ UNCHANGED <<orders, onNotification, onOrderDelivered, pcAuth, pcLoad,
                   loadReply, pcCreate, createReply, stream, srv>>
    /\ UNCHANGED notifier
    /\ UNCHANGED devVars

---------------------------------------------------------------------------
(* logout: app_provider.dart:115-122 *)

\* WebSocketService.disconnect: the connection is torn down and the events
\* it had not delivered are gone with it
Disconnect ==
    /\ wsConnected' = FALSE
    /\ stream' = << >>

\* the store after line 119
LogoutStore(os) == << >>

\* lines 116-121
Logout ==
    /\ pcAuth # "boot"
    /\ Disconnect
    /\ currentUser' = NoUser
    /\ orders' = LogoutStore(orders)
    /\ isLoggedIn' = FALSE
    /\ effects' = <<Eff("logout", -1)>>
                  \o (IF Throws THEN <<Threw(121)>> ELSE << >>)
    /\ UNCHANGED <<onNotification, onOrderDelivered, pcAuth, pcLoad,
                   loadReply, pcCreate, createReply, listeners, srv>>
    /\ UNCHANGED notifier
    /\ UNCHANGED devVars

---------------------------------------------------------------------------
(* dispose: app_provider.dart:191-195 *)

\* WebSocketService.dispose: the connection is closed and the order stream
\* is closed with it, which ends every subscription
ServiceDispose ==
    /\ wsConnected' = FALSE
    /\ stream' = << >>
    /\ listeners' = 0

\* lines 192-194.  super.dispose() marks the ChangeNotifier disposed; the
\* fields stay as they are and the calls that are awaiting a reply still
\* resume.  asserts: the build the program runs in has asserts on, so that
\* notifyListeners() throws from here on, and a second dispose() throws at
\* line 194; with asserts off the disposed notifier makes no difference.
Dispose(asserts) ==
    /\ ServiceDispose
    /\ notifier' = (IF asserts THEN "throws" ELSE notifier)
    /\ effects' = (IF Throws THEN <<Threw(194)>> ELSE <<Eff("dispose", -1)>>)
    /\ UNCHANGED <<currentUser, orders, isLoggedIn, onNotification,
                   onOrderDelivered, pcAuth, pcLoad, loadReply, pcCreate,
                   createReply, srv>>
    /\ UNCHANGED devVars

---------------------------------------------------------------------------
(* loadOrders: app_provider.dart:124-130 *)

\* lines 125-128, called from the UI: up to the await of fetchOrders
LoadOrdersCall ==
    /\ pcLoad = "idle"
    /\ pcAuth \in {"idle", "loading"}
    /\ pcLoad' = (IF HasToken(currentUser) /\ ~Throws THEN "sent" ELSE pcLoad)
    /\ effects' = (IF HasToken(currentUser) /\ Throws THEN <<Threw(127)>>
                   ELSE <<Eff("loadOrders",
                              IF HasToken(currentUser) THEN 1 ELSE 0)>>)
    /\ UNCHANGED <<currentUser, orders, isLoggedIn, onNotification,
                   onOrderDelivered, pcAuth, loadReply, pcCreate,
                   createReply, wsConnected, listeners, stream, srv>>
    /\ UNCHANGED notifier
    /\ UNCHANGED devVars

\* OrderService.fetchOrders answered by the backend: its orders at that
\* moment, or the empty list when the request fails
BackendFetch(ok) ==
    /\ pcLoad = "sent"
    /\ pcLoad' = "replied"
    /\ loadReply' = (IF ok THEN FetchOrders(srv) ELSE << >>)
    /\ effects' = << >>
    /\ UNCHANGED <<currentUser, orders, isLoggedIn, onNotification,
                   onOrderDelivered, pcAuth, pcCreate, createReply,
                   wsConnected, listeners, stream, srv>>
    /\ UNCHANGED notifier
    /\ UNCHANGED devVars

\* a loadOrders that keeps the records the fetched list does not name
LoadOrdersStoreMerge(os, fetched) ==
    fetched \o SelectSeq(os, LAMBDA o : IndexWhere(fetched, o.id) < 0)

\* the store after the assignment of line 128
LoadOrdersStore(os, fetched) == fetched

\* lines 128-129: resumed with the fetched list; when the call was made by
\* init or login, the caller then runs to its end (lines 47, 88-89)
LoadOrdersReturn ==
    /\ pcLoad = "replied"
    /\ orders' = LoadOrdersStore(orders, loadReply)
    /\ pcLoad' = "idle"
    /\ loadReply' = << >>
    /\ pcAuth' = (IF pcAuth = "loading" THEN "idle" ELSE pcAuth)
    /\ effects' = <<Eff("loadOrdersDone", -1)>>
                  \o (IF Throws THEN <<Threw(129)>> ELSE << >>)
    /\ UNCHANGED <<currentUser, isLoggedIn, onNotification, onOrderDelivered,
                   pcCreate, createReply, wsConnected, listeners, stream,
                   srv>>
    /\ UNCHANGED notifier
    /\ UNCHANGED devVars

---------------------------------------------------------------------------
(* createOrder: app_provider.dart:132-166 *)

\* lines 140-152: up to the await of OrderService.createOrder, or the
\* return false of line 140
CreateOrderCall ==
    /\ pcCreate = "idle"
    /\ pcAuth # "boot"
    /\ pcCreate' = (IF HasToken(currentUser) /\ ~Throws THEN "sent"
                    ELSE pcCreate)
    /\ effects' = (IF ~HasToken(currentUser) THEN <<Eff("createOrderDone", 0)>>
                   ELSE IF Throws THEN <<Threw(142)>>
                   ELSE << >>)
    /\ UNCHANGED <<currentUser, orders, isLoggedIn, onNotification,
                   onOrderDelivered, pcAuth, pcLoad, loadReply, createReply,
                   wsConnected, listeners, stream, srv>>
    /\ UNCHANGED notifier
    /\ UNCHANGED devVars

\* OrderService.createOrder answered by the backend: a new PENDING order
\* under a fresh id, or null when the request fails
BackendCreate(ok) ==
    /\ pcCreate = "sent"
    /\ pcCreate' = "replied"
    /\ IF ok /\ FreeIds # {}
       THEN /\ srv' = [srv EXCEPT ![NextId] = "PENDING"]
            /\ createReply' = Order(NextId, "PENDING")
       ELSE /\ srv' = srv
            /\ createReply' = NoOrder
    /\ effects' = << >>
    /\ UNCHANGED <<currentUser, orders, isLoggedIn, onNotification,
                   onOrderDelivered, pcAuth, pcLoad, loadReply, wsConnected,
                   listeners, stream>>
    /\ UNCHANGED notifier
    /\ UNCHANGED devVars

\* the store after line 156
CreateOrderStore(os, order) == InsertFirst(os, order)

\* lines 154-165: resumed with the backend's answer
CreateOrderReturn ==
    /\ pcCreate = "replied"
    /\ IF createReply # NoOrder
       THEN /\ orders' = CreateOrderStore(orders, createReply)
            /\ effects' = <<Eff("sendMessage", -1)>>
                          \o (IF onNotification THEN <<Eff("placed", -1)>>
                              ELSE << >>)
                          \o (IF Throws THEN <<Threw(160)>>
                              ELSE <<Eff("createOrderDone", 1)>>)
       ELSE /\ orders' = orders
            /\ effects' = (IF Throws THEN <<Threw(164)>>
                           ELSE <<Eff("createOrderDone", 0)>>)
    /\ pcCreate' = "idle"
    /\ createReply' = NoOrder
    /\ UNCHANGED <<currentUser, isLoggedIn, onNotification, onOrderDelivered,
                   pcAuth, pcLoad, loadReply, wsConnected, listeners, stream,
                   srv>>
    /\ UNCHANGED notifier
    /\ UNCHANGED devVars

---------------------------------------------------------------------------
(* updateUserEmail, updateUserAddress: app_provider.dart:168-180 *)

\* lines 169-172: nothing without a user; with one, the copy is assigned and
\* notifyListeners() of line 171 runs
UpdateUserEmail(newEmail) ==
    /\ Edits(currentUser) < MaxEdits
    /\ IF currentUser # NoUser
       THEN /\ currentUser' = CopyWithEmail(currentUser, newEmail)
            /\ effects' = (IF Throws THEN <<Threw(171)>> ELSE << >>)
       ELSE /\ currentUser' = currentUser
            /\ effects' = << >>
    /\ UNCHANGED <<orders, isLoggedIn, onNotification, onOrderDelivered,
                   pcAuth, pcLoad, loadReply, pcCreate, createReply,
                   wsConnected, listeners, stream, srv>>
    /\ UNCHANGED notifier
    /\ UNCHANGED devVars

\* lines 176-179
UpdateUserAddress(newAddress) ==
    /\ Edits(currentUser) < MaxEdits
    /\ IF currentUser # NoUser
       THEN /\ currentUser' = CopyWithAddress(currentUser, newAddress)
            /\ effects' = (IF Throws THEN <<Threw(178)>> ELSE << >>)
       ELSE /\ currentUser' = currentUser
            /\ effects' = << >>
    /\ UNCHANGED <<orders, isLoggedIn, onNotification, onOrderDelivered,
                   pcAuth, pcLoad, loadReply, pcCreate, createReply,
                   wsConnected, listeners, stream, srv>>
    /\ UNCHANGED notifier
    /\ UNCHANGED devVars

---------------------------------------------------------------------------
(* The order stream *)

\* the status lifecycle of an order on the server, earliest first
Lifecycle == <<"PENDING", "PROCESSING", "DELIVERED">>

Rank(s) == CHOOSE k \in 1..Len(Lifecycle) : Lifecycle[k] = s

\* the backend moves an order on to a later status of its lifecycle and,
\* when the client is connected, pushes the record to it
ServerStatusChange(i, s) ==
    /\ srv[i] # "none"
    /\ Rank(srv[i]) < Rank(s)
    /\ wsConnected => Len(stream) < MaxStream
    /\ srv' = [srv EXCEPT ![i] = s]
    /\ stream' = (IF wsConnected THEN Append(stream, Order(i, s)) ELSE stream)
    /\ effects' = << >>
    /\ UNCHANGED <<currentUser, orders, isLoggedIn, onNotification,
                   onOrderDelivered, pcAuth, pcLoad, loadReply, pcCreate,
                   createReply, wsConnected, listeners>>
    /\ UNCHANGED notifier
    /\ UNCHANGED devVars

\* the backend pushes an order as it stands (a new order relayed to the
\* clients, a record sent again)
ServerBroadcast(i) ==
    /\ srv[i] # "none"
    /\ wsConnected
    /\ Len(stream) < MaxStream
    /\ stream' = Append(stream, Order(i, srv[i]))
    /\ effects' = << >>
    /\ UNCHANGED <<currentUser, orders, isLoggedIn, onNotification,
                   onOrderDelivered, pcAuth, pcLoad, loadReply, pcCreate,
                   createReply, wsConnected, listeners, srv>>
    /\ UNCHANGED notifier
    /\ UNCHANGED devVars

\* lines 52-75: the next event of orderStream reaches the listener(s)
StreamEvent ==
    /\ stream # << >>
    /\ listeners > 0
    /\ orders' = ListenersStore(listeners, orders, Head(stream))
    /\ effects' = ListenersFired(listeners, orders, Head(stream),
                                 onNotification, onOrderDelivered, Throws)
    /\ stream' = Tail(stream)
    /\ UNCHANGED <<currentUser, isLoggedIn, onNotification, onOrderDelivered,
                   pcAuth, pcLoad, loadReply, pcCreate, createReply,
                   wsConnected, listeners, srv>>
    /\ UNCHANGED notifier
    /\ UNCHANGED devVars

---------------------------------------------------------------------------
(* The provider's next-state relation *)

\* when a call of login or signup that is answered now can have been made:
\* before dispose() ran (TRUE), or, once dispose() has run in a build with
\* asserts on, after it as well (FALSE).  The calls made before dispose()
\* and answered with a user after it are bounded: each of them subscribes,
\* and listeners counts the subscriptions made since dispose().
CallTimes ==
    {early \in BOOLEAN :
        /\ Throws \/ early
        /\ (Throws /\ early) => listeners < MaxLateReplies}

\* every public method of the provider but dispose, and every step of its
\* collaborators
AppStep ==
    \/ SetNotificationCallback
    \/ SetOnOrderDelivered
    \/ \E token \in BOOLEAN : InitCall(token)
    \/ \E u \in AuthReplies : InitUserReply(u)
    \/ \E u \in AuthReplies, early \in CallTimes : Login(u, early)
    \/ \E u \in AuthReplies, early \in CallTimes : Signup(u, early)
    \/ Logout
    \/ LoadOrdersCall
    \/ \E ok \in BOOLEAN : BackendFetch(ok)
    \/ LoadOrdersReturn
    \/ CreateOrderCall
    \/ \E ok \in BOOLEAN : BackendCreate(ok)
    \/ CreateOrderReturn
    \/ \E newEmail \in NewEmails : UpdateUserEmail(newEmail)
    \/ \E newAddress \in NewAddresses : UpdateUserAddress(newAddress)
    \/ \E i \in OrderIds, s \in BackendStatuses : ServerStatusChange(i, s)
    \/ \E i \in OrderIds : ServerBroadcast(i)
    \/ StreamEvent

\* the provider in a build with asserts off
NextApp == AppStep \/ Dispose(FALSE)

\* the provider in a build with asserts on
NextAppAsserts == AppStep \/ Dispose(TRUE)

---------------------------------------------------------------------------
(* The device: smart_toy_rfid.ino *)

\* LED pins, lines 30-33
LED_TOY_GUNS == 25
LED_ACTION_FIGURES == 27
LED_DOLLS == 26
LED_PUZZLES == 33

NoPin == -1

HIGH == 1
LOW == 0

\* a const char* that is null (a JSON key that is absent)
Null == "<null>"

\* one entry of tickLog
DigitalWrite(pin, level) == <<"digitalWrite", pin, level>>
Delay(ms) == <<"delay", 0, ms>>
Call(name) == <<name, 0, 0>>

RECURSIVE Repeat(_, _)
Repeat(n, log) == IF n <= 0 THEN << >> ELSE log \o Repeat(n - 1, log)

\* lines 224-229
TurnOffAllLEDs ==
    <<DigitalWrite(LED_TOY_GUNS, LOW), DigitalWrite(LED_ACTION_FIGURES, LOW),
      DigitalWrite(LED_DOLLS, LOW), DigitalWrite(LED_PUZZLES, LOW)>>

AllLEDsHigh ==
    <<DigitalWrite(LED_TOY_GUNS, HIGH), DigitalWrite(LED_ACTION_FIGURES, HIGH),
      DigitalWrite(LED_DOLLS, HIGH), DigitalWrite(LED_PUZZLES, HIGH)>>

\* a blinkLed whose loop runs once too often
BlinkLedOnceMore(pin, times, duration) ==
    IF pin = NoPin THEN << >>
    ELSE Repeat(times + 1, <<DigitalWrite(pin, HIGH), Delay(duration),
                             DigitalWrite(pin, LOW), Delay(duration)>>)

\* lines 231-236
BlinkLed(pin, times, duration) ==
    IF pin = NoPin THEN << >>
    ELSE Repeat(times, <<DigitalWrite(pin, HIGH), Delay(duration),
                         DigitalWrite(pin, LOW), Delay(duration)>>)

\* lines 238-245
IndicateSystemReady ==
    TurnOffAllLEDs \o <<Delay(50)>>
    \o Repeat(2, AllLEDsHigh \o <<Delay(100)>> \o TurnOffAllLEDs
                 \o <<Delay(100)>>)

\* lines 247-253
IndicateError ==
    Repeat(3, AllLEDsHigh \o <<Delay(80)>> \o TurnOffAllLEDs \o <<Delay(80)>>)

\* lines 216-222
GetLedPinForCategory(category) ==
    IF category = "Toy Guns" THEN LED_TOY_GUNS
    ELSE IF category = "Action Figures" THEN LED_ACTION_FIGURES
    ELSE IF category = "Dolls" THEN LED_DOLLS
    ELSE IF category = "Puzzles" THEN LED_PUZZLES
    ELSE NoPin

\* lines 155-166, for an action and a category that are strings
ExecuteLedAction(action, category) ==
    LET targetLed == GetLedPinForCategory(category) IN
    IF action = "processing_success" THEN BlinkLed(targetLed, 3, 200)
    ELSE IF action = "no_pending_orders" THEN IndicateSystemReady
    ELSE IndicateError

---------------------------------------------------------------------------
(* Identity resolution: lines 44-52, 196-214.  A String is the sequence of *)
(* its characters.                                                         *)

LowerHexDigits ==
    <<"0", "1", "2", "3", "4", "5", "6", "7", "8", "9", "a", "b", "c", "d",
      "e", "f">>

\* String(b, HEX): lower-case digits, no leading zero
HexString(b) ==
    IF b < 16 THEN <<LowerHexDigits[b + 1]>>
    ELSE <<LowerHexDigits[(b \div 16) + 1], LowerHexDigits[(b % 16) + 1]>>

\* toUpperCase on one character (the letters a String(b, HEX) can hold)
UpperChar(c) ==
    CASE c = "a" -> "A" [] c = "b" -> "B" [] c = "c" -> "C"
      [] c = "d" -> "D" [] c = "e" -> "E" [] c = "f" -> "F"
      [] OTHER -> c

\* a toUpperCase that leaves the string as it is
ToUpperCaseNone(str) == str

ToUpperCase(str) == [k \in 1..Len(str) |-> UpperChar(str[k])]

\* the loop of lines 198-202 from byte i (0-based) on
RECURSIVE UidFrom(_, _)
UidFrom(bytes, i) ==
    IF i >= Len(bytes) THEN << >>
    ELSE (IF i > 0 THEN <<" ">> ELSE << >>)
         \o (IF bytes[i + 1] < 16 THEN <<"0">> ELSE << >>)
         \o HexString(bytes[i + 1])
         \o UidFrom(bytes, i + 1)

\* lines 196-205
GetScannedUID(bytes) == ToUpperCase(UidFrom(bytes, 0))

\* lines 44-51
PersonMappings ==
    << [physicalUid |-> <<"A", "9", " ", "6", "C", " ", "6", "A", " ", "0",
                          "5">>,
        personName |-> "John Marwin"],
       [physicalUid |-> <<"0", "1", " ", "0", "2", " ", "0", "3", " ", "0",
                          "4">>,
        personName |-> "Jannalyn"],
       [physicalUid |-> <<"Y", "O", "U", "R", "_", "U", "I", "D", "_", "H",
                          "E", "R", "E", "_", "M", "A", "R", "L">>,
        personName |-> "Marl Prince"],
       [physicalUid |-> <<"Y", "O", "U", "R", "_", "U", "I", "D", "_", "H",
                          "E", "R", "E", "_", "R", "E", "N", "Z">>,
        personName |-> "Renz"] >>

\* line 52
NumMappings == Len(PersonMappings)

\* lines 207-214
RECURSIVE PersonFrom(_, _)
PersonFrom(uid, i) ==
    IF i >= NumMappings THEN ""
    ELSE IF uid = PersonMappings[i + 1].physicalUid
         THEN PersonMappings[i + 1].personName
    ELSE PersonFrom(uid, i + 1)

\* a lookup that returns the first entry without comparing
GetPersonFirstEntry(uid) == PersonMappings[1].personName

GetPersonFromPhysicalUID(uid) == PersonFrom(uid, 0)

---------------------------------------------------------------------------
(* Inputs of the device *)

\* cards held to the reader: two of the table, one that is not in it
CardUIDs == {<<169, 108, 106, 5>>, <<1, 2, 3, 4>>, <<222, 173, 190, 239>>}

\* what http.POST returns: HTTP status codes, or HTTPClient's negative error
\* codes (connection refused, read timeout)
HttpCodes == {200, 404, 500, -1, -11}

Actions == {Null, "processing_success", "no_pending_orders", "wrong_person"}

Categories == {Null, "Toy Guns", "Action Figures", "Dolls", "Puzzles",
               "Plush"}

\* a response payload: json says whether deserializeJson accepts it; action
\* and led are what responseDoc["action"] and responseDoc["led"] then give
NoBody == [json |-> FALSE, action |-> Null, led |-> Null]

Bodies == {NoBody} \cup [json : {TRUE}, action : Actions, led : Categories]

\* the polls setupWiFi makes at most, line 186
WifiMaxAttempts == 20

---------------------------------------------------------------------------
(* setup: lines 70-77, 172-194 *)

OUTPUT == 3

\* lines 172-180
SetupHardware ==
    <<<<"pinMode", LED_TOY_GUNS, OUTPUT>>,
      <<"pinMode", LED_ACTION_FIGURES, OUTPUT>>,
      <<"pinMode", LED_DOLLS, OUTPUT>>, <<"pinMode", LED_PUZZLES, OUTPUT>>>>
    \o TurnOffAllLEDs \o <<Call("SPI.begin"), Call("PCD_Init")>>

\* a setupWiFi whose loop runs once more than it was asked to
SetupWiFiOnceMore(n) ==
    <<Call("WiFi.begin")>>
    \o Repeat(n + 1, <<Call("WiFi.status"), Delay(500)>>)
    \o <<Call("WiFi.status"), Call("WiFi.status")>>

\* lines 182-194, when the body of the loop of line 186 ran n times: the
\* condition of line 186 reads WiFi.status() before each wait and once more
\* when the loop ends (the read comes before the test of attempts), and
\* line 189 reads it again
SetupWiFi(n) ==
    <<Call("WiFi.begin")>>
    \o Repeat(n, <<Call("WiFi.status"), Delay(500)>>)
    \o <<Call("WiFi.status"), Call("WiFi.status")>>

\* the ways setupWiFi can end: connected after n < 20 waits, or after 20
\* waits connected or not
WifiOutcome(n, up) ==
    /\ n \in 0..WifiMaxAttempts
    /\ n < WifiMaxAttempts => up

\* setup(), at power-on and after a panic has restarted the chip
Setup(n, up) ==
    /\ devPc \in {"off", "crashed"}
    /\ WifiOutcome(n, up)
    /\ tickLog' = tickLog \o SetupHardware \o SetupWiFi(n)
                  \o IndicateSystemReady
    /\ wifi' = up
    /\ devPc' = "idle"
    /\ idleTicks' = 0
    /\ UNCHANGED <<card, physicalUid, personName, httpCode, httpBody>>
    /\ UNCHANGED appVars

---------------------------------------------------------------------------
(* loop: lines 82-107 *)

\* one more pass of loop() in which no card was read
IdleTick == IF idleTicks > IdleWindow THEN idleTicks ELSE idleTicks + 1

\* lines 83-88
LoopWifiDown(n, up) ==
    /\ devPc = "idle"
    /\ ~wifi
    /\ WifiOutcome(n, up)
    /\ tickLog' = IndicateError \o SetupWiFi(n)
    /\ wifi' = up
    /\ idleTicks' = IdleTick
    /\ UNCHANGED <<devPc, card, physicalUid, personName, httpCode, httpBody>>
    /\ UNCHANGED appVars

\* line 90 false: no card, or the serial could not be read
LoopNoCard ==
    /\ devPc = "idle"
    /\ wifi
    /\ tickLog' = << >>
    /\ idleTicks' = IdleTick
    /\ UNCHANGED <<devPc, wifi, card, physicalUid, personName, httpCode,
                   httpBody>>
    /\ UNCHANGED appVars

\* lines 90-101, up to the call of handleScan
LoopRead ==
    /\ devPc = "idle"
    /\ wifi
    /\ card # << >>
    /\ physicalUid' = GetScannedUID(card)
    /\ personName' = GetPersonFromPhysicalUID(physicalUid')
    /\ IF personName' # ""
       THEN /\ tickLog' = <<Call("PICC_ReadCardSerial")>>
            /\ devPc' = "scan"
       ELSE /\ tickLog' = <<Call("PICC_ReadCardSerial")>> \o IndicateError
            /\ devPc' = "close"
    /\ httpCode' = 0
    /\ httpBody' = NoBody
    /\ idleTicks' = 0
    /\ UNCHANGED <<wifi, card>>
    /\ UNCHANGED appVars

\* lines 103-105
CloseSession ==
    /\ devPc = "close"
    /\ tickLog' = tickLog \o <<Call("PICC_HaltA"), Call("PCD_StopCrypto1"),
                               Delay(2500)>>
    /\ card' = << >>
    /\ devPc' = "idle"
    /\ UNCHANGED <<wifi, physicalUid, personName, httpCode, httpBody,
                   idleTicks>>
    /\ UNCHANGED appVars

---------------------------------------------------------------------------
(* handleScan: lines 113-153 *)

\* lines 114-130: the WiFi check, then the POST is sent
HandleScanStart ==
    /\ devPc = "scan"
    /\ IF wifi
       THEN /\ tickLog' = tickLog \o <<Call("POST")>>
            /\ devPc' = "request"
       ELSE /\ tickLog' = tickLog
            /\ devPc' = "close"
    /\ UNCHANGED <<wifi, card, physicalUid, personName, httpCode, httpBody,
                   idleTicks>>
    /\ UNCHANGED appVars

\* lines 132-151: what handleScan plays for the code http.POST returned and
\* the payload of the response
HandleScanFeedback(code, body) ==
    IF code > 0
    THEN IF ~body.json THEN IndicateError
         ELSE ExecuteLedAction(body.action, body.led)
    ELSE IndicateError

\* lines 130-152: http.POST has returned.  strcmp on a null action or
\* category is undefined: the chip panics (ub = "panic"), or the read of
\* address 0 yields bytes that match no literal (ub = "nomatch").
HandleScanReply(code, body, ub) ==
    /\ devPc = "request"
    /\ code <= 0 => body = NoBody
    /\ httpCode' = code
    /\ httpBody' = body
    /\ IF code > 0 /\ body.json /\ (body.action = Null \/ body.led = Null)
          /\ ub = "panic"
       THEN /\ tickLog' = tickLog \o <<Call("panic")>>
            /\ devPc' = "crashed"
       ELSE /\ tickLog' = tickLog \o HandleScanFeedback(code, body)
            /\ devPc' = "close"
    /\ UNCHANGED <<wifi, card, physicalUid, personName, idleTicks>>
    /\ UNCHANGED appVars

---------------------------------------------------------------------------
(* The surroundings of the device *)

CardPresented(uid) ==
    /\ devPc # "off"
    /\ card # uid
    /\ card' = uid
    /\ UNCHANGED <<devPc, wifi, physicalUid, personName, httpCode, httpBody,
                   tickLog, idleTicks>>
    /\ UNCHANGED appVars

CardRemoved ==
    /\ card # << >>
    /\ card' = << >>
    /\ UNCHANGED <<devPc, wifi, physicalUid, personName, httpCode, httpBody,
                   tickLog, idleTicks>>
    /\ UNCHANGED appVars

WifiChange ==
    /\ devPc # "off"
    /\ wifi' = ~wifi
    /\ UNCHANGED <<devPc, card, physicalUid, personName, httpCode, httpBody,
                   tickLog, idleTicks>>
    /\ UNCHANGED appVars

NextDev ==
    \/ \E n \in 0..WifiMaxAttempts, up \in BOOLEAN : Setup(n, up)
    \/ \E n \in 0..WifiMaxAttempts, up \in BOOLEAN : LoopWifiDown(n, up)
    \/ LoopNoCard
    \/ LoopRead
    \/ CloseSession
    \/ HandleScanStart
    \/ \E code \in HttpCodes, body \in Bodies, ub \in {"panic", "nomatch"} :
          HandleScanReply(code, body, ub)
    \/ \E uid \in CardUIDs : CardPresented(uid)
    \/ CardRemoved
    \/ WifiChange

---------------------------------------------------------------------------
(* Specifications *)

\* the sketch before setup() has run
InitDev ==
    /\ devPc = "off"
    /\ wifi = FALSE
    /\ card = << >>
    /\ physicalUid = << >>
    /\ personName = ""
    /\ httpCode = 0
    /\ httpBody = NoBody
    /\ tickLog = << >>
    /\ idleTicks = 0

Init == InitApp /\ InitDev

\* the provider, the device switched off
SpecApp == Init /\ [][NextApp]_vars

\* the provider in a build with asserts on, the device switched off
SpecAppAsserts == Init /\ [][NextAppAsserts]_vars

\* the device, the provider untouched
SpecDev == Init /\ [][NextDev]_vars

---------------------------------------------------------------------------
(* The listener applied to any store: the inputs are a store of up to      *)
(* MaxStore records (ids may repeat, as createOrder can make them), one    *)
(* event, the two callbacks registered or not, and 1..MaxListeners         *)
(* subscriptions.                                                          *)

OrderRecords == [id : OrderIds, status : Statuses]

Stores == UNION {[1..n -> OrderRecords] : n \in 0..MaxStore}

InitListener ==
    /\ currentUser = BackendUser
    /\ isLoggedIn = TRUE
    /\ orders \in Stores
    /\ onNotification \in BOOLEAN
    /\ onOrderDelivered \in BOOLEAN
    /\ pcAuth = "idle"
    /\ pcLoad = "idle"
    /\ loadReply = << >>
    /\ pcCreate = "idle"
    /\ createReply = NoOrder
    /\ notifier = "ok"
    /\ wsConnected = TRUE
    /\ listeners \in 1..MaxListeners
    /\ stream \in {<<o>> : o \in OrderRecords}
    /\ srv = [i \in OrderIds |-> IF i = stream[1].id THEN stream[1].status
                                 ELSE "PENDING"]
    /\ effects = << >>
    /\ InitDev

SpecListener == InitListener /\ [][StreamEvent]_vars

---------------------------------------------------------------------------
(* getScannedUID and getPersonFromPhysicalUID applied to any uid: the      *)
(* device is at the top of loop() with the WiFi up, and the card in the    *)
(* field has a uid of any single byte, or of up to MaxUidLen bytes taken   *)
(* from SampleBytes (the bytes of the mapping table, the bytes around the  *)
(* padding threshold 0x10, and 0xFF).                                      *)

SampleBytes == {0, 1, 2, 3, 4, 5, 15, 16, 106, 108, 169, 255}

UidInputs ==
    [1..1 -> 0..255] \cup UNION {[1..n -> SampleBytes] : n \in 0..MaxUidLen}

InitUid ==
    /\ InitApp
    /\ devPc = "idle"
    /\ wifi = TRUE
    /\ card \in UidInputs
    /\ physicalUid = << >>
    /\ personName = ""
    /\ httpCode = 0
    /\ httpBody = NoBody
    /\ tickLog = << >>
    /\ idleTicks = 0

SpecUid == InitUid /\ [][LoopRead]_vars

---------------------------------------------------------------------------
(* Properties of the provider *)

\* how often a callback or call named e is in a sequence of effects
RECURSIVE Count(_, _)
Count(effs, e) ==
    IF effs = << >> THEN 0
    ELSE (IF Head(effs).e = e THEN 1 ELSE 0) + Count(Tail(effs), e)

\* the positions of the store that hold a record of the given id
Positions(os, id) == {k \in 1..Len(os) : os[k].id = id}

\* the first of them
FirstPosition(os, id) ==
    CHOOSE k \in Positions(os, id) : \A j \in Positions(os, id) : k <= j

\* C1: the order list never holds two records with the same order id.
C1_OneRecordPerId ==
    \A a, b \in 1..Len(orders) : orders[a].id = orders[b].id => a = b

\* C2: a stream event whose id is in the store replaces that record where it
\* is, the length and every other position unchanged; an event whose id is
\* not in the store makes the list one longer, with the new record at index
\* 0 and the previous records following in their order.
C2_ApplyStreamEvent ==
    [][StreamEvent =>
         LET ev == Head(stream) IN
         IF Positions(orders, ev.id) # {}
         THEN /\ Len(orders') = Len(orders)
              /\ \E k \in Positions(orders, ev.id) :
                    /\ orders'[k] = ev
                    /\ \A j \in 1..Len(orders) : j # k => orders'[j] = orders[j]
         ELSE /\ Len(orders') = Len(orders) + 1
              /\ orders'[1] = ev
              /\ \A j \in 1..Len(orders) : orders'[j + 1] = orders[j]]_vars

\* C2 witness: an event found its record at index 1 of a store of at least
\* two records, after which that index holds a DELIVERED record
C2_Witness ==
    /\ effects # << >>
    /\ effects[1] = Eff("onOrder", 1)
    /\ Len(orders) >= 2
    /\ orders[2].status = "DELIVERED"
    /\ orders[1].id # orders[2].id

\* C3: with both callbacks registered, an event fires the general
\* notification exactly once if the (first) record of its id was in the
\* store with another status, and not at all otherwise; it fires the
\* delivered notification exactly once if that record was in the store, the
\* event's status is DELIVERED and the record's was not, and not at all
\* otherwise; an event that inserts a record fires neither.
C3_Notifications ==
    [][(StreamEvent /\ onNotification /\ onOrderDelivered) =>
         LET ev == Head(stream)
             present == Positions(orders, ev.id) # {}
             old == orders[FirstPosition(orders, ev.id)].status
         IN /\ Count(effects', "general") =
                 (IF present /\ old # ev.status THEN 1 ELSE 0)
            /\ Count(effects', "delivered") =
                 (IF present /\ ev.status = "DELIVERED" /\ old # "DELIVERED"
                  THEN 1 ELSE 0)]_vars

\* C3 witness: both callbacks registered, and the last event fired one
\* general and one delivered notification
C3_Witness ==
    /\ onNotification /\ onOrderDelivered
    /\ Count(effects, "onOrder") >= 1
    /\ Count(effects, "general") = 1
    /\ Count(effects, "delivered") = 1

\* C4: when logout has completed the order list is empty, currentUser is
\* null and isLoggedIn is false; and for as long as no user is set again (by
\* login, signup or init) the order list stays empty, whatever call was
\* awaiting its reply when logout ran.
C4_EmptyAfterLogout ==
    /\ effects = <<Eff("logout", -1)>> =>
           orders = << >> /\ currentUser = NoUser /\ ~isLoggedIn
    /\ currentUser = NoUser => orders = << >>

\* C13: createOrder called with a session token: when the backend gave an
\* order, that order is handed to the stream service once, before anything
\* else, the list grows by exactly that order at index 0 with the records
\* it held shifted behind it, and true is returned; when the backend gave
\* no order, the list is unchanged, nothing is sent and false is returned;
\* called without a token, createOrder returns false, makes no request to
\* the backend and leaves the list unchanged.
C13_CreateOrder ==
    [][/\ CreateOrderReturn =>
            IF createReply # NoOrder
            THEN /\ Len(orders') = Len(orders) + 1
                 /\ orders'[1] = createReply
                 /\ \A j \in 1..Len(orders) : orders'[j + 1] = orders[j]
                 /\ Count(effects', "sendMessage") = 1
                 /\ effects'[1] = Eff("sendMessage", -1)
                 /\ effects'[Len(effects')] = Eff("createOrderDone", 1)
            ELSE /\ orders' = orders
                 /\ Count(effects', "sendMessage") = 0
                 /\ effects' = <<Eff("createOrderDone", 0)>>
       /\ (CreateOrderCall /\ ~HasToken(currentUser)) =>
            /\ orders' = orders
            /\ pcCreate' = "idle"
            /\ srv' = srv
            /\ effects' = <<Eff("createOrderDone", 0)>>]_vars

\* C14: when loadOrders resumes, the list becomes exactly the list the fetch
\* returned, in one step, whatever the list held before; the fetched list
\* is the backend's orders at the moment of the fetch (empty when the fetch
\* failed); called without a token, loadOrders leaves the list unchanged
\* and makes no fetch.
C14_LoadOrdersReplaces ==
    [][/\ LoadOrdersReturn => orders' = loadReply
       /\ (pcLoad = "sent" /\ pcLoad' = "replied") =>
            loadReply' \in {FetchOrders(srv), << >>}
       /\ (LoadOrdersCall /\ ~HasToken(currentUser)) =>
            /\ orders' = orders
            /\ pcLoad' = "idle"
            /\ loadReply' = loadReply]_vars

\* C14 witness: loadOrders has just completed and the list, which held two
\* records, holds the single record the fetch had returned
C14_Witness ==
    /\ effects = <<Eff("loadOrdersDone", -1)>>
    /\ Len(orders) = 1
    /\ srv[1] # "none"
    /\ srv[2] # "none"

\* no id is held twice
UniqueIds(os) == \A a, b \in 1..Len(os) : os[a].id = os[b].id => a = b

\* the ids held in both stores with different statuses
StatusChanges(os, ns) ==
    {i \in OrderIds :
        \E a \in 1..Len(os), b \in 1..Len(ns) :
            os[a].id = i /\ ns[b].id = i /\ os[a].status # ns[b].status}

\* C16: with the notification callback registered, a step from one store
\* state to the next fires the general status-change notification exactly
\* once for each order whose stored status differs between the two states,
\* and not otherwise (stores that hold an id twice are left aside).
C16_OncePerTransition ==
    [][(onNotification /\ UniqueIds(orders) /\ UniqueIds(orders')) =>
          Count(effects', "general") =
              Cardinality(StatusChanges(orders, orders'))]_vars

\* C17: a stored record that carries the backend's current status of its
\* order is never replaced by a record of that order with another, older
\* status (stores that hold an id twice are left aside).
C17_NoLostUpdate ==
    [][(srv' = srv /\ UniqueIds(orders) /\ UniqueIds(orders')) =>
          \A a \in 1..Len(orders), b \in 1..Len(orders') :
              (orders[a].id = orders'[b].id
               /\ orders[a].status = srv[orders[a].id]) =>
                  orders'[b].status = srv[orders[a].id]]_vars

\* C19: when no init or login is in progress, isLoggedIn is true exactly
\* when currentUser is set.
C19_SessionConsistent ==
    pcAuth = "idle" => (isLoggedIn <=> currentUser # NoUser)

\* C20: at most one listener is subscribed to the order stream, and an event
\* is handed to the listener once.
C20_OneListener ==
    /\ listeners <= 1
    /\ Count(effects, "onOrder") <= 1

---------------------------------------------------------------------------
(* Properties of the device *)

\* the named call is in tickLog
HasCall(name) == \E k \in 1..Len(tickLog) : tickLog[k][1] = name

\* the LED writes and delays of tickLog; at devPc = "close" these are the
\* feedback of the scan cycle
Feedback ==
    SelectSeq(tickLog, LAMBDA e : e[1] \in {"digitalWrite", "delay"})

FeedbackWrites == SelectSeq(tickLog, LAMBDA e : e[1] = "digitalWrite")

KnownCategories == {"Toy Guns", "Action Figures", "Dolls", "Puzzles"}

\* the LED of each category (pins of lines 30-33)
CategoryLed ==
    [c \in KnownCategories |->
        CASE c = "Toy Guns" -> 25
          [] c = "Action Figures" -> 27
          [] c = "Dolls" -> 26
          [] c = "Puzzles" -> 33]

\* a response was parsed and its action and category, both strings, were
\* handed to executeLedAction, which has returned
Dispatched ==
    /\ devPc = "close"
    /\ httpCode > 0
    /\ httpBody.json
    /\ httpBody.action # Null
    /\ httpBody.led # Null

\* the identifier is in no entry of the mapping table
Unmapped(uid) ==
    \A k \in 1..Len(PersonMappings) : PersonMappings[k].physicalUid # uid

\* C5: executeLedAction on (action, category): "processing_success" with one
\* of the four categories pulses that category's LED exactly 3 times (high,
\* low, three times over) and writes no other LED; "no_pending_orders" plays
\* the system-ready pattern whatever the category; any other action plays
\* the error pattern.
C5_ExecuteLedAction ==
    Dispatched =>
        /\ (httpBody.action = "processing_success"
            /\ httpBody.led \in KnownCategories) =>
               /\ Len(FeedbackWrites) = 6
               /\ \A k \in 1..Len(FeedbackWrites) :
                     /\ FeedbackWrites[k][2] = CategoryLed[httpBody.led]
                     /\ FeedbackWrites[k][3] = k % 2
        /\ httpBody.action = "no_pending_orders" =>
               Feedback = IndicateSystemReady
        /\ httpBody.action \notin {"processing_success", "no_pending_orders"}
               => Feedback = IndicateError

\* C5 witness: processing_success for Toy Guns was dispatched and pin 25 went
\* high three times
C5_Witness ==
    /\ Dispatched
    /\ httpBody.action = "processing_success"
    /\ httpBody.led = "Toy Guns"
    /\ Len(SelectSeq(tickLog, LAMBDA e : e = <<"digitalWrite", 25, 1>>)) = 3

\* C6: a response whose category is none of the four recognized ones gets the
\* error pattern, whatever its action.
C6_UnknownCategoryIsError ==
    (Dispatched /\ httpBody.led \notin KnownCategories)
        => Feedback = IndicateError

\* C7: a request that ended with a non-2xx status or a transport failure
\* gets the error pattern, and nothing of its body is dispatched.
C7_FailedRequestIsError ==
    (devPc = "close" /\ HasCall("POST") /\ httpCode # 0
     /\ httpCode \notin 200..299) => Feedback = IndicateError

\* C8: a response that is malformed JSON, or lacks "action" or "led", gets
\* the error pattern and the loop goes on (no panic from a null handed to
\* strcmp).
C8_ParseFailureIsError ==
    (HasCall("POST") /\ httpCode > 0
     /\ (~httpBody.json \/ httpBody.action = Null \/ httpBody.led = Null)) =>
        /\ devPc # "crashed"
        /\ devPc = "close" => Feedback = IndicateError

\* C9: when the identifier read is in no entry of the mapping table, the
\* resolution gives the not-found result (the empty name), the error pattern
\* is played right after the read, and no request is made in that cycle.
C9_UnknownCard ==
    (HasCall("PICC_ReadCardSerial") /\ Unmapped(physicalUid)) =>
        /\ personName = ""
        /\ ~HasCall("POST")
        /\ httpCode = 0
        /\ devPc \in {"close", "idle"}
        /\ Len(tickLog) >= 1 + Len(IndicateError)
        /\ SubSeq(tickLog, 2, 1 + Len(IndicateError)) = IndicateError

\* C9 witness: the cycle of an unknown card has run to its end
C9_Witness ==
    /\ devPc = "idle"
    /\ HasCall("PICC_ReadCardSerial")
    /\ Unmapped(physicalUid)
    /\ physicalUid = <<"D", "E", " ", "A", "D", " ", "B", "E", " ", "E", "F">>
    /\ HasCall("PICC_HaltA")

\* C10: when the loop is back at its top after a cycle that read a card, the
\* last calls of that cycle were halt, stop-crypto and the 2500 ms delay.
C10_CycleClosesSession ==
    (devPc = "idle" /\ HasCall("PICC_ReadCardSerial")) =>
        /\ Len(tickLog) >= 3
        /\ SubSeq(tickLog, Len(tickLog) - 2, Len(tickLog)) =
              <<Call("PICC_HaltA"), Call("PCD_StopCrypto1"), Delay(2500)>>

\* what a pass of loop() can change (card and wifi are changed by the
\* surroundings too)
loopVars == <<devPc, physicalUid, personName, httpCode, httpBody, tickLog,
              idleTicks>>

\* the calls a pass of loop() made after the error pattern
AfterError(log) == SubSeq(log, Len(IndicateError) + 1, Len(log))

\* how many entries of log are the entry e
CountLog(log, e) == Cardinality({k \in 1..Len(log) : log[k] = e})

\* a pass of loop() that starts with the WiFi down plays the error pattern,
\* calls WiFi.begin once, then only reads WiFi.status() and waits 500 ms, at
\* most 20 times, with a read before every wait and at most maxPolls reads;
\* it touches neither the reader nor the network and ends at the top of
\* the loop, and so does every later pass while the WiFi is down; a card is
\* read only in a pass whose WiFi check passed, and it is the card in the
\* field at that moment
WifiDownTick(maxPolls) ==
    /\ (devPc = "idle" /\ ~wifi /\ loopVars' # loopVars) =>
         LET rest == AfterError(tickLog')
             waits == CountLog(rest, Delay(500))
             polls == CountLog(rest, Call("WiFi.status"))
         IN  /\ devPc' = "idle"
             /\ Len(tickLog') > Len(IndicateError)
             /\ SubSeq(tickLog', 1, Len(IndicateError)) = IndicateError
             /\ rest[1] = Call("WiFi.begin")
             /\ Len(rest) = 1 + waits + polls
             /\ waits <= 20
             /\ polls <= maxPolls
             /\ \A k \in 2..Len(rest) :
                   rest[k] = Delay(500) => rest[k - 1] = Call("WiFi.status")
             /\ <<card, physicalUid, personName, httpCode, httpBody>>' =
                   <<card, physicalUid, personName, httpCode, httpBody>>
    /\ (devPc = "idle" /\ devPc' \in {"scan", "close"}) =>
         /\ wifi
         /\ card # << >>
         /\ physicalUid' = GetScannedUID(card)

\* C11 as amended: a pass of loop() that starts with the WiFi down plays the
\* error pattern and makes one reconnection attempt of at most 20 waits of
\* 500 ms and at most 22 reads of WiFi.status() (one before each wait, one
\* when the waiting ends, one to report the result), touches neither the
\* reader nor the network and ends at the top of the loop, and so does
\* every later pass while the WiFi is down; a card presented meanwhile is
\* not stored.
C11_WifiDownTick == [][WifiDownTick(22)]_vars

\* C11 as claimed: the reconnection attempt of such a pass makes at most 20
\* status polls.
C11_AtMost20Polls == [][WifiDownTick(20)]_vars

\* C11 witness: a second pass with the WiFi down has used all 20 waits and
\* 22 status reads and the WiFi is still down, while a card that was never
\* read is in the field
C11_Witness ==
    /\ devPc = "idle"
    /\ ~wifi
    /\ idleTicks >= 2
    /\ CountLog(AfterError(tickLog), Delay(500)) = 20
    /\ CountLog(AfterError(tickLog), Call("WiFi.status")) = 22
    /\ SubSeq(tickLog, 1, Len(IndicateError)) = IndicateError
    /\ card # << >>
    /\ physicalUid = << >>

\* C12: the reader is initialized again (PCD_Init) before more than
\* IdleWindow passes of loop() have gone by without a card being read.
C12_IdleReinit == idleTicks <= IdleWindow

UpperHexDigits ==
    <<"0", "1", "2", "3", "4", "5", "6", "7", "8", "9", "A", "B", "C", "D",
      "E", "F">>

\* a byte as two upper-case hex digits
TwoHexDigits(b) ==
    <<UpperHexDigits[(b \div 16) + 1], UpperHexDigits[(b % 16) + 1]>>

\* the canonical identifier of a byte sequence: two digits per byte, one
\* space between bytes
RECURSIVE CanonicalUid(_)
CanonicalUid(bytes) ==
    IF bytes = << >> THEN << >>
    ELSE IF Len(bytes) = 1 THEN TwoHexDigits(bytes[1])
    ELSE TwoHexDigits(bytes[1]) \o <<" ">> \o CanonicalUid(Tail(bytes))

\* C15: the identifier read from a card is, byte by byte, two upper-case hex
\* digits (zero-padded below 0x10) with a single space between bytes and
\* none at either end, so [0xA9,0x6C,0x6A,0x05] reads "A9 6C 6A 05"; the
\* name resolved from it is the name of the table entry whose identifier is
\* exactly that string, and the empty name when there is none.
C15_CanonicalUid ==
    (HasCall("PICC_ReadCardSerial") /\ card # << >>) =>
        /\ physicalUid = CanonicalUid(card)
        /\ Len(physicalUid) = 3 * Len(card) - 1
        /\ physicalUid[1] # " " /\ physicalUid[Len(physicalUid)] # " "
        /\ card = <<169, 108, 106, 5>> =>
              physicalUid = <<"A", "9", " ", "6", "C", " ", "6", "A", " ",
                              "0", "5">>
        /\ \A k \in 1..Len(PersonMappings) :
              PersonMappings[k].physicalUid = physicalUid =>
                  personName = PersonMappings[k].personName
        /\ Unmapped(physicalUid) => personName = ""

\* C15 witness: the card [0xA9,0x6C,0x6A,0x05] was read and resolved
C15_Witness ==
    /\ HasCall("PICC_ReadCardSerial")
    /\ card = <<169, 108, 106, 5>>
    /\ Len(physicalUid) = 11
    /\ personName = "John Marwin"

\* the three feedback actions: the error pattern, the system-ready pattern,
\* three pulses of 200 ms on one category LED
FeedbackActions ==
    {IndicateError, IndicateSystemReady}
    \cup {Repeat(3, <<DigitalWrite(CategoryLed[c], HIGH), Delay(200),
                      DigitalWrite(CategoryLed[c], LOW), Delay(200)>>) :
             c \in KnownCategories}

\* C18: when a cycle that read a card is about to close the session, the
\* LED writes and delays of the cycle are exactly one of the three feedback
\* actions.
C18_OneFeedbackPerRead ==
    (devPc = "close" /\ HasCall("PICC_ReadCardSerial")) =>
        Feedback \in FeedbackActions

=============================================================================
